---- MODULE Spec2Model ----
(***************************************************************************)
(* drivetogcs: list the files of a Drive folder, then for each selected    *)
(* file run one goroutine that downloads it (getFileBytes), mirrors it to  *)
(* a bucket (uploadFileToGCS), describes it with a model (describe) and    *)
(* appends one record to a shared csv.Writer; main waits for all of them   *)
(* and flushes the writer on return.                                       *)
(***************************************************************************)
EXTENDS Integers, Sequences, FiniteSets, TLC

\* ---------------------------------------------------------------- bounds
MaxLen == 2          \* downloaded and pre-existing byte lengths are 1..MaxLen
MaxCap == 1          \* the -max flag ranges over 0..MaxCap

\* ------------------------------------------------------------- universes
Ids == {1, 2}                          \* indexes of the listing; one task each
Names == {"a.png", "b.png"}            \* display names
\* a file or object is [src, len]: whose bytes it holds and how many
Absent == [src |-> "none", len |-> 0]  \* no file / no object under a name
Mixed == "mixed"                       \* bytes of more than one asset
Pre == "pre"                           \* bytes that were there before the run

SkippedText == "Description skipped"
ModelTexts == {"", "a photo"}          \* description.Text(), possibly empty
DownloadErrs == {"Error: HTTP status code", "Unable to read response body"}
FolderErr == "Unable to create local folder"
WriteErr == "unable to write file"
StatErr == "error checking if file exists"
ParseErr == "failed to parse custom template"
ExecErr == "template: exec"
ErrStrings == DownloadErrs \cup {FolderErr, WriteErr, StatErr, ParseErr, ExecErr}
NoErr == "nil"

VARIABLES
    fileList,           \* result of listFiles: sequence of [id, name, mime, len]
    maxFiles,           \* -max
    alwaysUploadToGCS,  \* -always-upload
    createDescription,  \* -describe
    customPrompt,       \* customPromptLocation # ""
    localFolder,        \* the local folder exists
    localFiles,         \* name -> [src, len] of the file in the local folder
    preFiles,           \* localFiles as it was before the run
    gcs,                \* name -> [src, len] of the object in the bucket
    mainpc,             \* "spawn", "wait", "finalize", "done", "exited"
    spawned,            \* loop index i of main
    wg,                 \* sync.WaitGroup counter
    csvWriter,          \* rows held in the buffer of the csv.Writer
    csvFile,            \* rows of descriptions.csv on disk
    pc,                 \* per task: position in the goroutine
    fileBytes,          \* per task: length of the bytes read from Drive, 0 before
    gfbRes,             \* per task: how getFileBytes returned
    upRes,              \* per task: how uploadFileToGCS returned
    probeRes,           \* per task: result of the Attrs probe, "none" before
    objWrites,          \* per task: number of object writes invoked
    inferCalls,         \* per task: number of GenerateContent calls
    descriptionText, size, err,  \* per task: what describe returned
    raced               \* per task: its csvWriter.Write overlapped another

config == <<fileList, maxFiles, alwaysUploadToGCS, createDescription, customPrompt, preFiles>>
stores == <<localFolder, localFiles, gcs>>
mainv  == <<mainpc, spawned, wg, csvFile>>
gfbv   == <<fileBytes, gfbRes>>
upv    == <<upRes, probeRes, objWrites>>
descv  == <<inferCalls, descriptionText, size, err>>
vars   == <<config, stores, mainv, csvWriter, pc, gfbv, upv, descv, raced>>

\* fileCount of main: min(len(fileList), maxFiles) with 0 meaning no cap
FileCount ==
    IF maxFiles > 0 /\ maxFiles < Len(fileList) THEN maxFiles ELSE Len(fileList)

Tasks == 1..FileCount
Running == mainpc # "exited"
NameOf(t) == fileList[t].name

\* ------------------------------------------------------------------ Init
Mime(i) == IF i % 2 = 1 THEN "image/jpeg" ELSE "image/png"
IdStr(i) == "id" \o ToString(i)
Asset(i, nm, ln) == [id |-> IdStr(i), name |-> nm, mime |-> Mime(i), len |-> ln]

\* listings of n files; the first is named a.png, the others have any name
\* of names, and every length is one of lens
Listings(n, names, lens) ==
    { [i \in 1..n |-> Asset(i, nm[i], ln[i])] :
        nm \in { f \in [1..n -> names] : n >= 1 => f[1] = "a.png" }, ln \in [1..n -> lens] }

\* the listing of n files with distinct names, file i being i bytes long
Listing(n) == [i \in 1..n |-> Asset(i, IF i = 1 THEN "a.png" ELSE "b.png", i)]

PreFile(l) == [src |-> Pre, len |-> l]
OnlyA(c) == [n \in Names |-> IF n = "a.png" THEN c ELSE Absent]
NoFiles == [n \in Names |-> Absent]

Fresh ==
    /\ upRes = [t \in Ids |-> "none"]
    /\ probeRes = [t \in Ids |-> "none"]
    /\ objWrites = [t \in Ids |-> 0]
    /\ inferCalls = [t \in Ids |-> 0]
    /\ descriptionText = [t \in Ids |-> ""]
    /\ size = [t \in Ids |-> 0]
    /\ err = [t \in Ids |-> NoErr]
    /\ raced = [t \in Ids |-> FALSE]
    /\ csvWriter = <<>>
    /\ csvFile = <<>>

\* The process right after flag parsing and listFiles. The environment is
\* either untouched (no local folder, empty bucket) or left by an earlier
\* run that handled a.png (cached locally and mirrored).
Init ==
    /\ fileList \in { Listing(n) : n \in 0..Cardinality(Ids) }
    /\ maxFiles \in 0..MaxCap
    /\ alwaysUploadToGCS \in BOOLEAN
    /\ createDescription \in BOOLEAN
    /\ customPrompt \in BOOLEAN
    /\ \E earlier \in BOOLEAN :
         /\ localFolder = earlier
         /\ localFiles = IF earlier THEN OnlyA(PreFile(1)) ELSE NoFiles
         /\ gcs = IF earlier THEN OnlyA(PreFile(1)) ELSE NoFiles
    /\ preFiles = localFiles
    /\ mainpc = "spawn"
    /\ spawned = 0
    /\ wg = 0
    /\ pc = [t \in Ids |-> "idle"]
    /\ fileBytes = [t \in Ids |-> 0]
    /\ gfbRes = [t \in Ids |-> "none"]
    /\ Fresh

\* main blocked in wg.Wait() with every goroutine started: all of the files
\* listed are selected (no -max), flags at their defaults, and the goroutines
\* are about to call getFileBytes. Names may collide, lengths vary, and the
\* local folder is missing, or holds any of the names at any length.
InitCache ==
    /\ fileList \in Listings(Cardinality(Ids), Names, 1..MaxLen)
    /\ maxFiles = 0
    /\ alwaysUploadToGCS = FALSE
    /\ createDescription = TRUE
    /\ customPrompt = FALSE
    /\ localFolder \in BOOLEAN
    /\ localFiles \in [Names -> {Absent} \cup {PreFile(l) : l \in 1..MaxLen}]
    /\ (~localFolder => localFiles = NoFiles)
    /\ preFiles = localFiles
    /\ gcs = NoFiles
    /\ mainpc = "wait"
    /\ spawned = Len(fileList)
    /\ wg = Len(fileList)
    /\ pc = [t \in Ids |-> "download"]
    /\ fileBytes = [t \in Ids |-> 0]
    /\ gfbRes = [t \in Ids |-> "none"]
    /\ Fresh

\* main blocked in wg.Wait() with every goroutine back from getFileBytes on
\* a cache hit and about to call uploadFileToGCS. Names may collide, the
\* bucket holds any of the names, and -always-upload is on or off.
InitUpload ==
    /\ fileList \in Listings(Cardinality(Ids), Names, 1..MaxLen)
    /\ maxFiles = 0
    /\ alwaysUploadToGCS \in BOOLEAN
    /\ createDescription = TRUE
    /\ customPrompt = FALSE
    /\ localFolder = TRUE
    /\ localFiles = [n \in Names |-> PreFile(1)]
    /\ preFiles = localFiles
    /\ gcs \in [Names -> {Absent} \cup {PreFile(l) : l \in 1..MaxLen}]
    /\ mainpc = "wait"
    /\ spawned = Len(fileList)
    /\ wg = Len(fileList)
    /\ pc = [t \in Ids |-> "upload"]
    /\ fileBytes = [t \in Ids |-> fileList[t].len]
    /\ gfbRes = [t \in Ids |-> "ok"]
    /\ Fresh

\* ------------------------------------------------------- shared helpers
\* describe returns (d, s, e) to the goroutine of main, which goes on to
\* build its record
DescribeReturns(t, d, s, e) ==
    /\ descriptionText' = [descriptionText EXCEPT ![t] = d]
    /\ size' = [size EXCEPT ![t] = s]
    /\ err' = [err EXCEPT ![t] = e]
    /\ pc' = [pc EXCEPT ![t] = "csvwrite"]

\* getFileBytes returns (nil, e); describe returns ("", 0, e) at once
GetFileBytesFails(t, how, e) ==
    /\ gfbRes' = [gfbRes EXCEPT ![t] = how]
    /\ DescribeReturns(t, "", 0, e)
    /\ UNCHANGED <<config, mainv, csvWriter, upv, inferCalls, raced>>

\* getFileBytes returns (fileBytes, nil); describe goes on to the upload
GetFileBytesReturns(t) ==
    /\ gfbRes' = [gfbRes EXCEPT ![t] = "ok"]
    /\ pc' = [pc EXCEPT ![t] = "upload"]
    /\ UNCHANGED <<config, mainv, csvWriter, upv, descv, raced>>

\* ----------------------------------------------------------- getFileBytes
\* call.Download(), the status check and io.Copy
Download(t) ==
    /\ Running /\ pc[t] = "download"
    /\ \/ /\ gfbRes' = [gfbRes EXCEPT ![t] = "fatal"]        \* log.Fatalf
          /\ mainpc' = "exited"
          /\ UNCHANGED <<config, stores, spawned, wg, csvFile, csvWriter, pc, fileBytes, upv, descv, raced>>
       \/ /\ \E e \in DownloadErrs : GetFileBytesFails(t, "dlerr", e)
          /\ UNCHANGED <<stores, fileBytes>>
       \/ /\ fileBytes' = [fileBytes EXCEPT ![t] = fileList[t].len]
          /\ pc' = [pc EXCEPT ![t] = "ensurefolder"]
          /\ UNCHANGED <<config, stores, mainv, csvWriter, gfbRes, upv, descv, raced>>

\* os.Stat(localFolderName) and os.MkdirAll
EnsureFolder(t) ==
    /\ Running /\ pc[t] = "ensurefolder"
    /\ \/ /\ ~localFolder
          /\ localFolder' = TRUE
          /\ pc' = [pc EXCEPT ![t] = "statfile"]
          /\ UNCHANGED <<config, localFiles, gcs, mainv, csvWriter, gfbv, upv, descv, raced>>
       \/ /\ ~localFolder
          /\ GetFileBytesFails(t, "foldererr", FolderErr)
          /\ UNCHANGED <<stores, fileBytes>>
       \/ /\ localFolder
          /\ pc' = [pc EXCEPT ![t] = "statfile"]
          /\ UNCHANGED <<config, stores, mainv, csvWriter, gfbv, upv, descv, raced>>

\* StatFile with the cache-hit branch lost: an existing file is rewritten
StatFileNoSkip(t) ==
    /\ Running /\ pc[t] = "statfile"
    /\ \/ /\ pc' = [pc EXCEPT ![t] = "openfile"]
          /\ UNCHANGED <<config, stores, mainv, csvWriter, gfbv, upv, descv, raced>>
       \/ /\ GetFileBytesFails(t, "staterr", StatErr)
          /\ UNCHANGED <<stores, fileBytes>>

\* os.Stat(localFilePath) and the three branches on its result
StatFile(t) ==
    /\ Running /\ pc[t] = "statfile"
    /\ \/ /\ localFiles[NameOf(t)] = Absent                 \* os.IsNotExist
          /\ pc' = [pc EXCEPT ![t] = "openfile"]
          /\ UNCHANGED <<config, stores, mainv, csvWriter, gfbv, upv, descv, raced>>
       \/ /\ GetFileBytesFails(t, "staterr", StatErr)        \* any other error
          /\ UNCHANGED <<stores, fileBytes>>
       \/ /\ localFiles[NameOf(t)] # Absent                 \* exists: skip the write
          /\ GetFileBytesReturns(t)
          /\ UNCHANGED <<stores, fileBytes>>

\* os.WriteFile, first half: open with O_CREATE|O_TRUNC
OpenFile(t) ==
    /\ Running /\ pc[t] = "openfile"
    /\ \/ /\ localFiles' = [localFiles EXCEPT ![NameOf(t)] = [src |-> fileList[t].id, len |-> 0]]
          /\ pc' = [pc EXCEPT ![t] = "writedata"]
          /\ UNCHANGED <<config, localFolder, gcs, mainv, csvWriter, gfbv, upv, descv, raced>>
       \/ /\ GetFileBytesFails(t, "writeerr", WriteErr)
          /\ UNCHANGED <<stores, fileBytes>>

\* the file cur after the len bytes of asset id are written at its offset 0
Written(cur, id, len) ==
    [src |-> IF cur.len <= len THEN id ELSE Mixed,
     len |-> IF cur.len <= len THEN len ELSE cur.len]

\* WriteData that reports success without having written the bytes
WriteDataNothing(t) ==
    /\ Running /\ pc[t] = "writedata"
    /\ \/ /\ GetFileBytesReturns(t)
          /\ UNCHANGED <<stores, fileBytes>>
       \/ /\ GetFileBytesFails(t, "writeerr", WriteErr)
          /\ UNCHANGED <<stores, fileBytes>>

\* os.WriteFile, second half: write the bytes and close
WriteData(t) ==
    /\ Running /\ pc[t] = "writedata"
    /\ \/ /\ localFiles' = [localFiles EXCEPT
                              ![NameOf(t)] = Written(localFiles[NameOf(t)], fileList[t].id, fileBytes[t])]
          /\ GetFileBytesReturns(t)
          /\ UNCHANGED <<localFolder, gcs, fileBytes>>
       \/ /\ GetFileBytesFails(t, "writeerr", WriteErr)
          /\ UNCHANGED <<stores, fileBytes>>

\* -------------------------------------------------------- uploadFileToGCS
\* uploadFileToGCS returns r; describe logs a failure and goes on
UploadReturns(t, r) ==
    /\ upRes' = [upRes EXCEPT ![t] = r]
    /\ pc' = [pc EXCEPT ![t] = "describe"]

\* UploadProbe with the result of the probe ignored: the write always follows
UploadProbeIgnored(t) ==
    /\ Running /\ pc[t] = "upload"
    /\ \/ /\ UploadReturns(t, "clienterr")
          /\ UNCHANGED <<probeRes>>
       \/ /\ alwaysUploadToGCS
          /\ pc' = [pc EXCEPT ![t] = "objwrite"]
          /\ UNCHANGED <<upRes, probeRes>>
       \/ /\ ~alwaysUploadToGCS
          /\ probeRes' = [probeRes EXCEPT ![t] =
                            IF gcs[NameOf(t)] # Absent THEN "found" ELSE "notfound"]
          /\ pc' = [pc EXCEPT ![t] = "objwrite"]
          /\ UNCHANGED <<upRes>>
    /\ UNCHANGED <<config, stores, mainv, csvWriter, gfbv, objWrites, descv, raced>>

\* storage.NewClient, then (unless override) the Attrs probe
UploadProbe(t) ==
    /\ Running /\ pc[t] = "upload"
    /\ \/ /\ UploadReturns(t, "clienterr")                    \* NewClient failed
          /\ UNCHANGED <<probeRes>>
       \/ /\ alwaysUploadToGCS                                \* override: no probe
          /\ pc' = [pc EXCEPT ![t] = "objwrite"]
          /\ UNCHANGED <<upRes, probeRes>>
       \/ /\ ~alwaysUploadToGCS /\ gcs[NameOf(t)] # Absent    \* err == nil
          /\ probeRes' = [probeRes EXCEPT ![t] = "found"]
          /\ UploadReturns(t, "exists")
       \/ /\ ~alwaysUploadToGCS /\ gcs[NameOf(t)] = Absent    \* ErrObjectNotExist
          /\ probeRes' = [probeRes EXCEPT ![t] = "notfound"]
          /\ pc' = [pc EXCEPT ![t] = "objwrite"]
          /\ UNCHANGED <<upRes>>
       \/ /\ ~alwaysUploadToGCS                               \* any other error
          /\ probeRes' = [probeRes EXCEPT ![t] = "error"]
          /\ UploadReturns(t, "probeerr")
    /\ UNCHANGED <<config, stores, mainv, csvWriter, gfbv, objWrites, descv, raced>>

\* NewWriter, wc.Write and wc.Close
ObjWrite(t) ==
    /\ Running /\ pc[t] = "objwrite"
    /\ objWrites' = [objWrites EXCEPT ![t] = @ + 1]
    /\ \/ /\ gcs' = [gcs EXCEPT ![NameOf(t)] = [src |-> fileList[t].id, len |-> fileBytes[t]]]
          /\ UploadReturns(t, "uploaded")
       \/ /\ UploadReturns(t, "writeerr")                     \* Write or Close failed
          /\ UNCHANGED gcs
    /\ UNCHANGED <<config, localFolder, localFiles, mainv, csvWriter, gfbv, probeRes, descv, raced>>

\* ---------------------------------------------------------------- describe
\* RenderPrompt without the createDescription gate
RenderPromptNoGate(t) ==
    /\ Running /\ pc[t] = "describe"
    /\ \/ /\ customPrompt
          /\ DescribeReturns(t, "", 0, ParseErr)
       \/ /\ customPrompt
          /\ DescribeReturns(t, "", 0, ExecErr)
       \/ /\ pc' = [pc EXCEPT ![t] = "generate"]
          /\ UNCHANGED <<descriptionText, size, err>>
    /\ UNCHANGED <<config, stores, mainv, csvWriter, gfbv, upv, inferCalls, raced>>

\* the createDescription gate and the prompt template; the embedded
\* prompts/describe_media.tpl is taken to parse and execute
RenderPrompt(t) ==
    /\ Running /\ pc[t] = "describe"
    /\ \/ /\ ~createDescription
          /\ DescribeReturns(t, SkippedText, fileBytes[t], NoErr)
       \/ /\ createDescription /\ customPrompt                \* template.ParseFiles failed
          /\ DescribeReturns(t, "", 0, ParseErr)
       \/ /\ createDescription /\ customPrompt                \* tmpl.Execute failed
          /\ DescribeReturns(t, "", 0, ExecErr)
       \/ /\ createDescription
          /\ pc' = [pc EXCEPT ![t] = "generate"]
          /\ UNCHANGED <<descriptionText, size, err>>
    /\ UNCHANGED <<config, stores, mainv, csvWriter, gfbv, upv, inferCalls, raced>>

\* genaiClient.Models.GenerateContent
GenerateContent(t) ==
    /\ Running /\ pc[t] = "generate"
    /\ inferCalls' = [inferCalls EXCEPT ![t] = @ + 1]
    /\ \/ DescribeReturns(t, "", 0, NoErr)                    \* error: logged, nil returned
       \/ \E d \in ModelTexts : DescribeReturns(t, d, fileBytes[t], NoErr)
    /\ UNCHANGED <<config, stores, mainv, csvWriter, gfbv, upv, raced>>

\* ------------------------------------------------------- the task's record
\* description = fmt.Sprintf("Error: %v", err) when describe failed
Description(t) == IF err[t] # NoErr THEN "Error: " \o err[t] ELSE descriptionText[t]

Record(t) ==
    <<fileList[t].name, ToString(size[t]), fileList[t].mime, fileList[t].id, Description(t)>>

InWrite == {u \in Tasks : pc[u] = "inwrite"}

\* the goroutine calls csvWriter.Write(record); nothing excludes the others
CsvWriteBegin(t) ==
    /\ Running /\ pc[t] = "csvwrite"
    /\ pc' = [pc EXCEPT ![t] = "inwrite"]
    /\ raced' = [u \in Ids |-> raced[u] \/ (InWrite # {} /\ u \in InWrite \cup {t})]
    /\ UNCHANGED <<config, stores, mainv, csvWriter, gfbv, upv, descv>>

\* what a Write that overlapped another may leave in the buffer: the record,
\* nothing (its bytes overwritten), or the record with one field overwritten
\* by the same field of a record written at the same time
RacedRows(t) ==
    {<<Record(t)>>, <<>>} \cup
    { <<[Record(t) EXCEPT ![k] = Record(u)[k]]>> :
        u \in {v \in Tasks \ {t} : raced[v]}, k \in 1..5 }

\* csvWriter.Write returns; the records of a run fit the buffer of the
\* writer, so nothing reaches the file before the Flush
CsvWriteEnd(t) ==
    /\ Running /\ pc[t] = "inwrite"
    /\ pc' = [pc EXCEPT ![t] = "logged"]
    /\ \/ /\ ~raced[t]
          /\ csvWriter' = Append(csvWriter, Record(t))
       \/ /\ raced[t]
          /\ \E rows \in RacedRows(t) : csvWriter' = csvWriter \o rows
    /\ UNCHANGED <<config, stores, mainv, gfbv, upv, descv, raced>>

\* the log lines and the deferred wg.Done()
TaskDone(t) ==
    /\ Running /\ pc[t] = "logged"
    /\ pc' = [pc EXCEPT ![t] = "done"]
    /\ wg' = wg - 1
    /\ UNCHANGED <<config, stores, mainpc, spawned, csvFile, csvWriter, gfbv, upv, descv, raced>>

\* ------------------------------------------------------------------ main


\* for i := 0; i < fileCount; i++ { wg.Add(1); go func(file) {...}(file) }
Spawn ==
    /\ mainpc = "spawn"
    /\ spawned < FileCount
    /\ spawned' = spawned + 1
    /\ wg' = wg + 1
    /\ pc' = [pc EXCEPT ![spawned + 1] = "download"]
    /\ UNCHANGED <<config, stores, mainpc, csvFile, csvWriter, gfbv, upv, descv, raced>>

SpawnEnd ==
    /\ mainpc = "spawn"
    /\ spawned = FileCount
    /\ mainpc' = "wait"
    /\ UNCHANGED <<config, stores, spawned, wg, csvFile, csvWriter, pc, gfbv, upv, descv, raced>>

\* main going on without waiting for the goroutines
WaitAllNoBarrier ==
    /\ mainpc = "wait"
    /\ mainpc' = "finalize"
    /\ UNCHANGED <<config, stores, spawned, wg, csvFile, csvWriter, pc, gfbv, upv, descv, raced>>

\* wg.Wait()
WaitAll ==
    /\ mainpc = "wait"
    /\ wg = 0
    /\ mainpc' = "finalize"
    /\ UNCHANGED <<config, stores, spawned, wg, csvFile, csvWriter, pc, gfbv, upv, descv, raced>>

\* main returns: the deferred csvWriter.Flush() and csvFile.Close()
Finalize ==
    /\ mainpc = "finalize"
    /\ csvFile' = csvWriter
    /\ mainpc' = "done"
    /\ UNCHANGED <<config, stores, spawned, wg, csvWriter, pc, gfbv, upv, descv, raced>>

Next ==
    \/ Spawn
    \/ SpawnEnd
    \/ \E t \in Tasks : Download(t)
    \/ \E t \in Tasks : EnsureFolder(t)
    \/ \E t \in Tasks : StatFile(t)
    \/ \E t \in Tasks : OpenFile(t)
    \/ \E t \in Tasks : WriteData(t)
    \/ \E t \in Tasks : UploadProbe(t)
    \/ \E t \in Tasks : ObjWrite(t)
    \/ \E t \in Tasks : RenderPrompt(t)
    \/ \E t \in Tasks : GenerateContent(t)
    \/ \E t \in Tasks : CsvWriteBegin(t)
    \/ \E t \in Tasks : CsvWriteEnd(t)
    \/ \E t \in Tasks : TaskDone(t)
    \/ WaitAll
    \/ Finalize

Spec == Init /\ [][Next]_vars

\* getFileBytes alone, called by every goroutine
NextCache ==
    \/ \E t \in Tasks : Download(t)
    \/ \E t \in Tasks : EnsureFolder(t)
    \/ \E t \in Tasks : StatFile(t)
    \/ \E t \in Tasks : OpenFile(t)
    \/ \E t \in Tasks : WriteData(t)

SpecCache == InitCache /\ [][NextCache]_vars

\* uploadFileToGCS alone, called by every goroutine
NextUpload ==
    \/ \E t \in Tasks : UploadProbe(t)
    \/ \E t \in Tasks : ObjWrite(t)

SpecUpload == InitUpload /\ [][NextUpload]_vars

\* ================================================================ claims
ErrorTexts == {"Error: " \o e : e \in ErrStrings}
Ended == mainpc \in {"done", "exited"}
Built(t) == pc[t] \in {"csvwrite", "inwrite", "logged", "done"}
Returned(t) == gfbRes[t] \notin {"none", "fatal"}       \* getFileBytes returned to describe
DownloadFailed(t) == gfbRes[t] \in {"fatal", "dlerr"}
TemplateFailed(t) == err[t] \in {ParseErr, ExecErr}
ModelFailed(t) ==
    Built(t) /\ inferCalls[t] = 1 /\ descriptionText[t] = "" /\ size[t] = 0 /\ err[t] = NoErr
AllSucceeded(t) == gfbRes[t] = "ok" /\ err[t] = NoErr /\ ~ModelFailed(t)
RowsOf(t) == {i \in 1..Len(csvFile) : csvFile[i][4] = fileList[t].id}
HasOwnRow(t) == Cardinality(RowsOf(t)) = 1 /\ \A i \in RowsOf(t) : csvFile[i] = Record(t)
UniqueName(t) == \A u \in Tasks \ {t} : NameOf(u) # NameOf(t)
UploadSucceeded(t) == upRes[t] \in {"exists", "uploaded"}
UploadFailed(t) == upRes[t] \in {"clienterr", "probeerr", "writeerr"}

\* min(number of listed assets, cap), a cap of 0 meaning none
MinListedCap ==
    IF maxFiles = 0 \/ Len(fileList) <= maxFiles THEN Len(fileList) ELSE maxFiles

\* C1: when a run ends, the output table has exactly min(listed, cap) rows,
\* one per selected asset, whatever the per-asset outcomes were.
C1_RowPerAsset ==
    Ended => (Len(csvFile) = MinListedCap /\ \A t \in 1..MinListedCap : HasOwnRow(t))

\* C2: at most one task is inside csvWriter.Write at any time.
C2_WriteExclusive == Cardinality(InWrite) <= 1

\* C3: a download failure of one asset does not abort the process; the asset
\* gets an error-text record and no inference call is made for it.
C3_DownloadDegraded ==
    \A t \in Tasks : DownloadFailed(t) =>
        /\ Running
        /\ inferCalls[t] = 0
        /\ Built(t) => Description(t) \in ErrorTexts

\* C4 as claimed: uploadFileToGCS invokes the object write iff override is
\* set or the probe says "not found"; a probe that finds the object means no
\* write and success; another probe error means failure and no write; with
\* override the write always happens and there is no probe.
C4_WriteIffOverrideOrNotFound ==
    \A t \in Tasks : upRes[t] # "none" =>
        /\ objWrites[t] >= 1 <=> (alwaysUploadToGCS \/ probeRes[t] = "notfound")
        /\ (~alwaysUploadToGCS /\ probeRes[t] = "found") =>
               (objWrites[t] = 0 /\ UploadSucceeded(t))
        /\ probeRes[t] = "error" => (objWrites[t] = 0 /\ UploadFailed(t))
        /\ alwaysUploadToGCS => (objWrites[t] = 1 /\ probeRes[t] = "none")

\* C4 amended: the same, once the storage client has been created; when its
\* creation fails the function fails with neither a probe nor a write. And
\* without override nothing is written under a name whose object was there.
C4_WriteIffOverrideOrNotFoundGivenClient ==
    \A t \in Tasks :
        /\ (upRes[t] \notin {"none", "clienterr"}) =>
            /\ objWrites[t] >= 1 <=> (alwaysUploadToGCS \/ probeRes[t] = "notfound")
            /\ (~alwaysUploadToGCS /\ probeRes[t] = "found") =>
                   (objWrites[t] = 0 /\ UploadSucceeded(t))
            /\ probeRes[t] = "error" => (objWrites[t] = 0 /\ UploadFailed(t))
            /\ alwaysUploadToGCS => (objWrites[t] = 1 /\ probeRes[t] = "none")
        /\ upRes[t] = "clienterr" => (objWrites[t] = 0 /\ probeRes[t] = "none")
        /\ (~alwaysUploadToGCS /\ gcs[NameOf(t)].src = Pre) => objWrites[t] = 0

C4_Witness ==
    \E t \in Tasks :
        /\ ~alwaysUploadToGCS /\ upRes[t] = "exists" /\ probeRes[t] = "found"
        /\ \E u \in Tasks : upRes[u] = "uploaded" /\ probeRes[u] = "notfound"

\* C5 as claimed: once every getFileBytes is over, each asset whose bytes
\* getFileBytes returned has a local file under its display name, as long
\* as the download was, also when a file of that name was there before the
\* run or the name is shared.
C5_LocalCopyHasDownloadedLength ==
    (\A u \in Tasks : pc[u] \in {"upload", "csvwrite"}) =>
        \A t \in Tasks : gfbRes[t] = "ok" =>
            /\ localFiles[NameOf(t)] # Absent
            /\ localFiles[NameOf(t)].len = fileBytes[t]

\* C5 amended: once getFileBytes has returned the bytes of an asset, a local
\* file under its display name exists; it is as long as the download when no
\* file of that name was there before the run and no other selected asset
\* has the same display name.
C5_LocalCopyExists ==
    \A t \in Tasks : gfbRes[t] = "ok" =>
        /\ localFiles[NameOf(t)] # Absent
        /\ (preFiles[NameOf(t)] = Absent /\ UniqueName(t)) =>
               localFiles[NameOf(t)] = [src |-> fileList[t].id, len |-> fileBytes[t]]

C5_Witness ==
    /\ \A t \in Tasks : gfbRes[t] = "ok" /\ preFiles[NameOf(t)] = Absent /\ UniqueName(t)
    /\ \E t \in Tasks : localFiles[NameOf(t)].len = MaxLen

\* C6 as claimed: a file that was under the asset's display name before the
\* run is left as it was, and getFileBytes still returns the bytes it has
\* just downloaded.
C6_CacheHitKeepsFileReturnsBytes ==
    \A t \in Tasks : preFiles[NameOf(t)] # Absent =>
        /\ localFiles[NameOf(t)] = preFiles[NameOf(t)]
        /\ (fileBytes[t] > 0 /\ Returned(t)) => gfbRes[t] = "ok"

\* C6 amended: the file is left as it was, and getFileBytes returns the
\* bytes it has just downloaded unless the os.Stat of the file fails with an
\* error other than "not exist", which it returns instead.
C6_CacheHitKeepsFile ==
    \A t \in Tasks : preFiles[NameOf(t)] # Absent =>
        /\ localFiles[NameOf(t)] = preFiles[NameOf(t)]
        /\ (fileBytes[t] > 0 /\ Returned(t)) => gfbRes[t] \in {"ok", "staterr"}

C6_Witness ==
    \E t \in Tasks :
        /\ preFiles[NameOf(t)] # Absent
        /\ gfbRes[t] = "ok"
        /\ fileBytes[t] # preFiles[NameOf(t)].len

\* C7 as claimed: with -describe off no inference call is made and every
\* row of the table has the placeholder as its description, whatever
\* happened to the download and the upload.
C7_SkippedEverywhere ==
    ~createDescription =>
        /\ \A t \in Tasks : inferCalls[t] = 0
        /\ \A i \in 1..Len(csvFile) : csvFile[i][5] = SkippedText

\* C7 amended: with -describe off no inference call is made, and the record
\* a task hands to csvWriter.Write has the placeholder as its description
\* when getFileBytes returned the bytes (whatever the upload did) and the
\* error text of getFileBytes when it failed.
C7_SkippedUnlessDownloadFailed ==
    ~createDescription =>
        \A t \in Tasks :
            /\ inferCalls[t] = 0
            /\ Built(t) =>
                 /\ gfbRes[t] = "ok" => Record(t)[5] = SkippedText
                 /\ gfbRes[t] # "ok" => Record(t)[5] \in ErrorTexts

C7_Witness ==
    /\ ~createDescription /\ mainpc = "done"
    /\ \E t \in Tasks : UploadFailed(t) /\ Record(t)[5] = SkippedText
    /\ \E t \in Tasks : gfbRes[t] # "ok" /\ Record(t)[5] \in ErrorTexts

\* C8: when a run ends, an asset whose template failed has its one row with
\* an error text as description, an asset whose model call failed has its
\* one row with the empty description and no error, and every other asset
\* has its own row too.
C8_TemplateVsModelFailure ==
    Ended =>
        \A t \in Tasks :
            /\ TemplateFailed(t) => (HasOwnRow(t) /\ Record(t)[5] \in ErrorTexts)
            /\ ModelFailed(t) => (HasOwnRow(t) /\ Record(t)[5] = "")
            /\ (TemplateFailed(t) \/ ModelFailed(t)) =>
                   \A u \in Tasks \ {t} : HasOwnRow(u)

\* C9: main flushes the writer only after every spawned task has appended
\* its record and finished, and nothing is appended after the flush.
C9_FlushAfterAllTasks ==
    /\ mainpc \in {"finalize", "done"} =>
           (spawned = FileCount /\ \A t \in Tasks : pc[t] = "done")
    /\ mainpc = "done" => csvFile = csvWriter

C9_Witness ==
    /\ mainpc = "done"
    /\ FileCount = Cardinality(Ids)
    /\ Len(csvFile) = FileCount

\* C10: in the finished table the size field of an asset's row is the
\* downloaded length when download, template and model call all succeeded,
\* and 0 in every other case.
C10_SizeField ==
    mainpc = "done" =>
        \A t \in Tasks : \A i \in RowsOf(t) :
            csvFile[i][2] = ToString(IF AllSucceeded(t) THEN fileBytes[t] ELSE 0)
====
